---- MODULE Spec2Model ----
(***************************************************************************)
(* Model of the redis cache-synchronisation client (src/redis/redis.go).   *)
(*                                                                         *)
(* Two client instances share one broker (a key/value store with TTLs and  *)
(* one publish/subscribe channel).  Each instance owns a bounded outbound  *)
(* queue (sendBuffer), a bounded output channel (CacheChannel), one        *)
(* coordinating goroutine (the select loop of startup) and at most one     *)
(* bulk-load goroutine (GetRedisCache).                                    *)
(*                                                                         *)
(* Strings are sequences of one-character strings, byte slices are         *)
(* sequences, a time.Duration is a whole number of ticks with Second       *)
(* ticks to the second.                                                    *)
(***************************************************************************)
EXTENDS Integers, Sequences, FiniteSets, TLC

(***************************************************************************)
(* Bounds of the model                                                     *)
(***************************************************************************)
\* capacity of sendBuffer and CacheChannel (the program uses 1000)
chanCap == 1
\* ticks per second of a time.Duration (the program uses 10^9)
Second == 2
\* largest resource-record TTL, in seconds, the model draws
MaxTTL == 2
\* largest number of resource records of an answer the pure functions are fed
MaxRR == 2
\* number of PublishCache calls over all instances
MaxCalls == 2
\* number of payloads writers outside the model put on the channel
MaxForeignPub == 1
\* number of entries writers outside the model put into the store
MaxForeignSet == 2
\* longest free-form key the key functions are fed
MaxKeyLen == 2

(***************************************************************************)
(* Program constants                                                       *)
(***************************************************************************)
CacheChannelName == "blocky_sync"
CacheStorePrefix == <<"b","l","o","c","k","y",":","c","a","c","h","e",":">>
cacheReason == "EXTERNAL_CACHE"
defaultCacheTime == 1 * Second
ResponseTypeCACHED == "CACHED"

\* a nil pointer, an absent entry
Nil == [nil |-> TRUE]
NoErr == "ok"

Instances == {"A", "B"}
\* uuid.New(): one identifier per instance, all different
idOf(i) == <<"id", i>>
\* an identifier no instance of the model owns
idForeign == <<"id", "X">>

(***************************************************************************)
(* Sequences                                                               *)
(***************************************************************************)
SeqsUpTo(S, n) == UNION {[1..k -> S] : k \in 0..n}

IsPrefixOf(p, s) == Len(p) <= Len(s) /\ SubSeq(s, 1, Len(p)) = p

(***************************************************************************)
(* Keys: prefixKey and cleanKey                                            *)
(***************************************************************************)
\* fmt.Sprintf("%s%s", CacheStorePrefix, key)
prefixKey(key) == CacheStorePrefix \o key

\* a cutset trim (strings.TrimLeft) in the place of strings.TrimPrefix
RECURSIVE TrimLeftCutset(_, _)
TrimLeftCutset(key, cut) ==
    IF key # <<>> /\ \E n \in 1..Len(cut) : cut[n] = key[1]
    THEN TrimLeftCutset(Tail(key), cut)
    ELSE key

cleanKey_TrimLeft(key) == TrimLeftCutset(key, CacheStorePrefix)

\* strings.TrimPrefix(key, CacheStorePrefix)
cleanKey(key) ==
    IF IsPrefixOf(CacheStorePrefix, key)
    THEN SubSeq(key, Len(CacheStorePrefix) + 1, Len(key))
    ELSE key

\* the glob prefixKey("*") of Scan: every key that starts with the prefix
ScanMatches(key) == IsPrefixOf(CacheStorePrefix, key)

(***************************************************************************)
(* DNS messages and the wire codec (github.com/miekg/dns)                  *)
(*                                                                         *)
(* A message is [Answer: the TTLs of its resource records, packs: whether  *)
(* Pack accepts it].  The wire form is the record count followed by the    *)
(* TTLs; Unpack rejects bytes whose count does not match.                  *)
(***************************************************************************)
TTLs == 0..MaxTTL

Pack(m) == <<Len(m.Answer)>> \o m.Answer
PackErr(m) == ~m.packs

UnpackErr(b) == Len(b) = 0 \/ b[1] # Len(b) - 1
Unpack(b) == [Answer |-> Tail(b), packs |-> TRUE]

\* bytes no Unpack accepts
corruptBytes == <<7>>

(***************************************************************************)
(* The envelope of the channel (encoding/json on redisMessage)             *)
(***************************************************************************)
jsonMarshal(rm) == <<"J", rm.K, rm.M, rm.C>>
\* json.Marshal of a struct of a string and two byte slices returns no error
jsonMarshalErr(rm) == FALSE

jsonUnmarshalErr(p) == ~(Len(p) = 4 /\ p[1] = "J")
jsonUnmarshal(p) == [K |-> p[2], M |-> p[3], C |-> p[4]]

(***************************************************************************)
(* TTL policy: getTTL and convertMessage                                   *)
(***************************************************************************)
RECURSIVE MaxTtlFrom(_, _)
\* the loop of getTTL: ttl starts at 0 and takes every larger record TTL
MaxTtlFrom(answer, ttl) ==
    IF answer = <<>> THEN ttl
    ELSE MaxTtlFrom(Tail(answer), IF answer[1] > ttl THEN answer[1] ELSE ttl)

\* getTTL that keeps the TTL of the last record
getTTL_Last(dns) ==
    IF dns.Answer = <<>> \/ dns.Answer[Len(dns.Answer)] = 0
    THEN defaultCacheTime
    ELSE dns.Answer[Len(dns.Answer)] * Second

getTTL(dns) ==
    LET ttl == MaxTtlFrom(dns.Answer, 0)
    IN  IF ttl = 0 THEN defaultCacheTime ELSE ttl * Second

\* uint32(ttl.Seconds()) for a positive duration: the whole seconds
WholeSeconds(ttl) == ttl \div Second

\* convertMessage that restamps with the seconds rounded up
convertMessage_Ceil(message, ttl) ==
    IF UnpackErr(message.M)
    THEN [err |-> "unpack", res |-> Nil]
    ELSE LET dns == Unpack(message.M)
             restamped == [n \in 1..Len(dns.Answer) |-> (ttl + Second - 1) \div Second]
         IN  [err |-> NoErr,
              res |-> [Key |-> message.K,
                       RType |-> ResponseTypeCACHED,
                       Reason |-> cacheReason,
                       Res |-> IF ttl > 0 THEN restamped ELSE dns.Answer]]

\* convertMessage that does not look at the error of Unpack
convertMessage_Lenient(message, ttl) ==
    LET answer == IF Len(message.M) = 0 THEN <<>> ELSE Tail(message.M)
        restamped == [n \in 1..Len(answer) |-> WholeSeconds(ttl)]
    IN  [err |-> NoErr,
         res |-> [Key |-> message.K,
                  RType |-> ResponseTypeCACHED,
                  Reason |-> cacheReason,
                  Res |-> IF ttl > 0 THEN restamped ELSE answer]]

\* convertMessage(message, ttl): [err, res]
convertMessage(message, ttl) ==
    IF UnpackErr(message.M)
    THEN [err |-> "unpack", res |-> Nil]
    ELSE LET dns == Unpack(message.M)
             restamped == [n \in 1..Len(dns.Answer) |-> WholeSeconds(ttl)]
         IN  [err |-> NoErr,
              res |-> [Key |-> message.K,
                       RType |-> ResponseTypeCACHED,
                       Reason |-> cacheReason,
                       Res |-> IF ttl > 0 THEN restamped ELSE dns.Answer]]

(***************************************************************************)
(* Inputs the model draws                                                  *)
(***************************************************************************)
\* an answer the codec refuses to pack
unpackable == [Answer |-> <<1>>, packs |-> FALSE]
\* an answer whose largest TTL is not the last one
answerMax == [Answer |-> <<MaxTTL, 1>>, packs |-> TRUE]
\* an answer whose records carry no TTL
answerZero == [Answer |-> <<0, 0>>, packs |-> TRUE]
\* an answer without records
answerNone == [Answer |-> <<>>, packs |-> TRUE]

\* what PublishCache is called with where two instances run: a message
\* Pack refuses and an answer
PairKeys == {<<"a">>}
PairMsgs == {unpackable, answerMax}

\* what PublishCache is called with where one instance runs alone
SoloKeys == {<<>>, <<"a">>, <<"b">>}
SoloMsgs == {Nil, unpackable, answerNone, answerZero, answerMax}

\* what other writers leave in the store, [key, val, ttl in seconds]: bytes
\* that unpack and bytes that do not, with a second to live or in the last
\* half second of their lifetime, for which the store reports a TTL of 0
ForeignEntries ==
    [key : {prefixKey(<<"a">>), prefixKey(<<"b">>)},
     val : {corruptBytes, <<1, 1>>},
     ttl : {0, 1}]

\* what other writers put on the channel: nothing, no JSON, an envelope
\* with the id of instance A, of no instance, without id, with bad bytes
ForeignPayloads ==
    {<<>>,
     <<"x">>,
     jsonMarshal([K |-> <<"a">>, M |-> <<1, 1>>, C |-> idOf("A")]),
     jsonMarshal([K |-> <<"a">>, M |-> <<1, 1>>, C |-> idForeign]),
     jsonMarshal([K |-> <<"b">>, M |-> <<0>>, C |-> <<>>]),
     jsonMarshal([K |-> <<"b">>, M |-> corruptBytes, C |-> idForeign])}

StoreKeys == {prefixKey(<<"a">>), prefixKey(<<"b">>)}

\* what a listening instance is sent by other writers: payloads that do not
\* parse and envelopes of another origin, with bytes that unpack or not
DecodePayloads ==
    {p \in ForeignPayloads : jsonUnmarshalErr(p) \/ jsonUnmarshal(p).C = idForeign}

\* what it finds in the store: entries with a second to live
DecodeEntries == {e \in ForeignEntries : e.ttl = 1}

\* entries of another writer that decode, under both keys
PeerEntries == {e \in DecodeEntries : ~UnpackErr(e.val)}

\* the broadcast of another writer that decodes
PeerPayload == jsonMarshal([K |-> <<"a">>, M |-> <<1, 1>>, C |-> idForeign])

(***************************************************************************)
(* State                                                                   *)
(***************************************************************************)
VARIABLES
    phase,         \* per instance: outcome of New
    newErr,        \* per instance: the error New returned
    loopPc,        \* per instance: where the goroutine of startup stands
    cur,           \* per instance: the request the outbound branch holds
    sendBuffer,    \* per instance: the buffered items of c.sendBuffer
    sendq,         \* per instance: PublishCache callers blocked on a full sendBuffer
    CacheChannel,  \* per instance: the buffered items of c.CacheChannel
    cacheSendq,    \* per instance: goroutines blocked on a full CacheChannel
    inbox,         \* per instance: messages of the subscription not yet received
    store,         \* the broker's key/value store
    loaderPc,      \* per instance: where the goroutine of GetRedisCache stands
    iterKeys,      \* per instance: keys the scan iterator has still to return
    got,           \* per instance: the key and the value Get returned to getResponse
    calls,         \* history: number of PublishCache calls
    lastCall,      \* history: the arguments of the last PublishCache call
    scanned,       \* history, per instance: the keys Scan matched
    taken,         \* history: requests the loop received from sendBuffer
    pubLog,        \* history: Publish calls of the outbound branch
    setLog,        \* history: Set calls of the outbound branch
    emitted,       \* history, per instance: items put on CacheChannel
    scanLog,       \* history, per instance: what getResponse saw per scanned key
    nForeignPub,   \* history: payloads other writers published
    nForeignSet,   \* history: entries other writers stored
    stopRequested, \* per instance: the host has asked the engine to shut down
    received,      \* history, per instance: messages the loop took from the subscription
    consumed,      \* history, per instance: items the consumer took from CacheChannel
    probe          \* the last application of a pure function

vars == <<phase, newErr, loopPc, cur, sendBuffer, sendq, CacheChannel,
          cacheSendq, inbox, store, loaderPc, iterKeys, got, calls, lastCall,
          scanned, taken, pubLog, setLog, emitted, scanLog, nForeignPub, nForeignSet,
          stopRequested, received, consumed, probe>>

Init ==
    /\ phase = [i \in Instances |-> "init"]
    /\ newErr = [i \in Instances |-> NoErr]
    /\ loopPc = [i \in Instances |-> "off"]
    /\ cur = [i \in Instances |-> Nil]
    /\ sendBuffer = [i \in Instances |-> <<>>]
    /\ sendq = [i \in Instances |-> <<>>]
    /\ CacheChannel = [i \in Instances |-> <<>>]
    /\ cacheSendq = [i \in Instances |-> <<>>]
    /\ inbox = [i \in Instances |-> <<>>]
    /\ store = [k \in StoreKeys |-> Nil]
    /\ loaderPc = [i \in Instances |-> "idle"]
    /\ iterKeys = [i \in Instances |-> {}]
    /\ got = [i \in Instances |-> Nil]
    /\ calls = 0
    /\ lastCall = Nil
    /\ scanned = [i \in Instances |-> {}]
    /\ taken = <<>>
    /\ pubLog = {}
    /\ setLog = {}
    /\ emitted = [i \in Instances |-> <<>>]
    /\ scanLog = [i \in Instances |-> <<>>]
    /\ nForeignPub = 0
    /\ nForeignSet = 0
    /\ stopRequested = [i \in Instances |-> FALSE]
    /\ received = [i \in Instances |-> <<>>]
    /\ consumed = [i \in Instances |-> <<>>]
    /\ probe = Nil

\* New returned a client (also when startup failed: "return res, err")
HasClient(i) == phase[i] \in {"running", "subFailed"}
\* the subscription of instance i receives what is published
Subscribed(i) == phase[i] = "running"

(***************************************************************************)
(* New and startup                                                         *)
(***************************************************************************)
\* New whose startup starts the goroutine whatever Receive returned
New_AlwaysStart(i) ==
    /\ phase[i] = "init"
    /\ \E hasAddress \in BOOLEAN, pingOk \in BOOLEAN, receiveOk \in BOOLEAN :
         IF ~hasAddress
         THEN /\ phase' = [phase EXCEPT ![i] = "disabled"]
              /\ UNCHANGED <<newErr, loopPc>>
         ELSE IF ~pingOk
         THEN /\ phase' = [phase EXCEPT ![i] = "pingFailed"]
              /\ newErr' = [newErr EXCEPT ![i] = "ping"]
              /\ UNCHANGED loopPc
         ELSE /\ phase' = [phase EXCEPT ![i] = IF receiveOk THEN "running" ELSE "subFailed"]
              /\ newErr' = [newErr EXCEPT ![i] = IF receiveOk THEN NoErr ELSE "receive"]
              /\ loopPc' = [loopPc EXCEPT ![i] = "select"]
    /\ UNCHANGED <<cur, sendBuffer, sendq, CacheChannel, cacheSendq, inbox,
                   store, loaderPc, iterKeys, calls, taken, pubLog, setLog,
                   emitted, scanLog, nForeignPub, nForeignSet, probe, lastCall,
                   scanned, got, stopRequested,
                   received, consumed>>

\* New(cfg): no address disables the client; a failed Ping returns the
\* error; otherwise the client is built and startup subscribes, and only a
\* successful Receive starts the goroutine.  New returns startup's error.
New(i) ==
    /\ phase[i] = "init"
    /\ \E hasAddress \in BOOLEAN, pingOk \in BOOLEAN, receiveOk \in BOOLEAN :
         IF ~hasAddress
         THEN /\ phase' = [phase EXCEPT ![i] = "disabled"]
              /\ UNCHANGED <<newErr, loopPc>>
         ELSE IF ~pingOk
         THEN /\ phase' = [phase EXCEPT ![i] = "pingFailed"]
              /\ newErr' = [newErr EXCEPT ![i] = "ping"]
              /\ UNCHANGED loopPc
         ELSE IF ~receiveOk
         THEN /\ phase' = [phase EXCEPT ![i] = "subFailed"]
              /\ newErr' = [newErr EXCEPT ![i] = "receive"]
              /\ UNCHANGED loopPc
         ELSE /\ phase' = [phase EXCEPT ![i] = "running"]
              /\ loopPc' = [loopPc EXCEPT ![i] = "select"]
              /\ UNCHANGED newErr
    /\ UNCHANGED <<cur, sendBuffer, sendq, CacheChannel, cacheSendq, inbox,
                   store, loaderPc, iterKeys, calls, taken, pubLog, setLog,
                   emitted, scanLog, nForeignPub, nForeignSet, probe, lastCall, scanned, got, stopRequested,
                   received, consumed>>

(***************************************************************************)
(* PublishCache                                                            *)
(***************************************************************************)
\* PublishCache that sends without looking at its arguments
PublishCache_NoCheck(i, key, message) ==
    /\ HasClient(i)
    /\ calls < MaxCalls
    /\ calls' = calls + 1
    /\ lastCall' = [inst |-> i, key |-> key, message |-> message]
    /\ LET s == [Key |-> key, Message |-> message, rid |-> calls + 1, from |-> i]
       IN  IF Len(sendBuffer[i]) < chanCap
           THEN /\ sendBuffer' = [sendBuffer EXCEPT ![i] = Append(@, s)]
                /\ UNCHANGED sendq
           ELSE /\ sendq' = [sendq EXCEPT ![i] = Append(@, s)]
                /\ UNCHANGED sendBuffer
    /\ UNCHANGED <<phase, newErr, loopPc, cur, CacheChannel, cacheSendq, inbox,
                   store, loaderPc, iterKeys, taken, pubLog, setLog, emitted,
                   scanLog, nForeignPub, nForeignSet, probe, scanned, got, stopRequested,
                   received, consumed>>

\* PublishCache that overwrites the newest queued item when the queue is full
PublishCache_Overwrite(i, key, message) ==
    /\ HasClient(i)
    /\ calls < MaxCalls
    /\ calls' = calls + 1
    /\ lastCall' = [inst |-> i, key |-> key, message |-> message]
    /\ IF Len(key) > 0 /\ message # Nil
       THEN LET s == [Key |-> key, Message |-> message, rid |-> calls + 1, from |-> i]
            IN  sendBuffer' = [sendBuffer EXCEPT ![i] =
                    IF Len(@) < chanCap THEN Append(@, s)
                    ELSE Append(SubSeq(@, 1, Len(@) - 1), s)]
       ELSE UNCHANGED sendBuffer
    /\ UNCHANGED <<phase, newErr, loopPc, cur, sendq, CacheChannel, cacheSendq,
                   inbox, store, loaderPc, iterKeys, taken, pubLog, setLog,
                   emitted, scanLog, nForeignPub, nForeignSet, probe, scanned, got, stopRequested,
                   received, consumed>>

\* PublishCache(key, message): a valid request is sent on sendBuffer; the
\* send enqueues when the buffer has room and parks the caller otherwise
PublishCache(i, key, message) ==
    /\ HasClient(i)
    /\ calls < MaxCalls
    /\ calls' = calls + 1
    /\ lastCall' = [inst |-> i, key |-> key, message |-> message]
    /\ IF Len(key) > 0 /\ message # Nil
       THEN LET s == [Key |-> key, Message |-> message, rid |-> calls + 1, from |-> i]
            IN  IF Len(sendBuffer[i]) < chanCap
                THEN /\ sendBuffer' = [sendBuffer EXCEPT ![i] = Append(@, s)]
                     /\ UNCHANGED sendq
                ELSE /\ sendq' = [sendq EXCEPT ![i] = Append(@, s)]
                     /\ UNCHANGED sendBuffer
       ELSE UNCHANGED <<sendBuffer, sendq>>
    /\ UNCHANGED <<phase, newErr, loopPc, cur, CacheChannel, cacheSendq, inbox,
                   store, loaderPc, iterKeys, taken, pubLog, setLog, emitted,
                   scanLog, nForeignPub, nForeignSet, probe, scanned, got, stopRequested,
                   received, consumed>>

(***************************************************************************)
(* Sending on CacheChannel                                                 *)
(***************************************************************************)
\* a send that gives the item up when the channel is full
SendCache_NonBlocking(i, who, item) ==
    IF Len(CacheChannel[i]) < chanCap
    THEN /\ CacheChannel' = [CacheChannel EXCEPT ![i] = Append(@, item)]
         /\ emitted' = [emitted EXCEPT ![i] = Append(@, item)]
         /\ UNCHANGED cacheSendq
    ELSE UNCHANGED <<CacheChannel, emitted, cacheSendq>>

\* c.CacheChannel <- item by goroutine who: the item is buffered when there
\* is room, and the goroutine parks in the channel's send queue otherwise
SendCache(i, who, item) ==
    IF Len(CacheChannel[i]) < chanCap
    THEN /\ CacheChannel' = [CacheChannel EXCEPT ![i] = Append(@, item)]
         /\ emitted' = [emitted EXCEPT ![i] = Append(@, item)]
         /\ UNCHANGED cacheSendq
    ELSE /\ cacheSendq' = [cacheSendq EXCEPT ![i] = Append(@, [who |-> who, item |-> item])]
         /\ UNCHANGED <<CacheChannel, emitted>>

SendBlocks(i) == Len(CacheChannel[i]) >= chanCap

\* the consumer receives from CacheChannel; the first parked sender's item
\* moves into the buffer and that sender runs on
Consume(i) ==
    /\ CacheChannel[i] # <<>>
    /\ IF cacheSendq[i] # <<>>
       THEN LET w == Head(cacheSendq[i])
            IN  /\ CacheChannel' = [CacheChannel EXCEPT ![i] = Append(Tail(@), w.item)]
                /\ emitted' = [emitted EXCEPT ![i] = Append(@, w.item)]
                /\ cacheSendq' = [cacheSendq EXCEPT ![i] = Tail(@)]
                /\ IF w.who = "loop"
                   THEN /\ loopPc' = [loopPc EXCEPT ![i] = "select"]
                        /\ UNCHANGED loaderPc
                   ELSE /\ loaderPc' = [loaderPc EXCEPT ![i] = "scan"]
                        /\ UNCHANGED loopPc
       ELSE /\ CacheChannel' = [CacheChannel EXCEPT ![i] = Tail(@)]
            /\ UNCHANGED <<emitted, cacheSendq, loopPc, loaderPc>>
    /\ consumed' = [consumed EXCEPT ![i] = Append(@, Head(CacheChannel[i]))]
    /\ UNCHANGED <<phase, newErr, cur, sendBuffer, sendq, inbox, store, iterKeys,
                   calls, taken, pubLog, setLog, scanLog, nForeignPub,
                   nForeignSet, probe, lastCall, scanned, got, stopRequested,
                   received>>

(***************************************************************************)
(* The coordinating loop of startup                                        *)
(***************************************************************************)
\* inbound branch without the comparison of rm.C with c.id
InboundRecord_NoFilter(i, payload) ==
    IF Len(payload) = 0 \/ jsonUnmarshalErr(payload) THEN Nil
    ELSE LET cm == convertMessage(jsonUnmarshal(payload), 0)
         IN  IF cm.err = NoErr THEN cm.res ELSE Nil

\* what the inbound branch sends for a payload, Nil when it sends nothing:
\* the payload is not empty, it parses, rm.C differs from c.id and
\* convertMessage(&rm, 0) returns no error
InboundRecord(i, payload) ==
    IF Len(payload) = 0 \/ jsonUnmarshalErr(payload) THEN Nil
    ELSE LET rm == jsonUnmarshal(payload)
         IN  IF rm.C = idOf(i) THEN Nil
             ELSE LET cm == convertMessage(rm, 0)
                  IN  IF cm.err = NoErr THEN cm.res ELSE Nil

\* an inbound branch that a second goroutine runs, whatever the loop does
LoopRecvMsg_SecondWorker(i) ==
    /\ loopPc[i] # "off"
    /\ inbox[i] # <<>>
    /\ inbox' = [inbox EXCEPT ![i] = Tail(@)]
    /\ received' = [received EXCEPT ![i] = Append(@, Head(inbox[i]))]
    /\ LET msg == Head(inbox[i])
           cm == InboundRecord(i, msg.Payload)
           item == [msg |-> cm, via |-> "sub", bid |-> msg.bid,
                    origin |-> IF jsonUnmarshalErr(msg.Payload) THEN <<>>
                               ELSE jsonUnmarshal(msg.Payload).C,
                    ttl |-> 0]
       IN  IF cm = Nil \/ SendBlocks(i)
           THEN UNCHANGED <<CacheChannel, emitted, cacheSendq, loopPc>>
           ELSE /\ SendCache(i, "loop", item)
                /\ UNCHANGED loopPc
    /\ UNCHANGED <<phase, newErr, cur, sendBuffer, sendq, store, loaderPc,
                   iterKeys, calls, taken, pubLog, setLog, scanLog,
                   nForeignPub, nForeignSet, probe, lastCall, scanned, got,
                   stopRequested, consumed>>

\* case msg := <-ps.Channel()
LoopRecvMsg(i) ==
    /\ loopPc[i] = "select"
    /\ inbox[i] # <<>>
    /\ inbox' = [inbox EXCEPT ![i] = Tail(@)]
    /\ received' = [received EXCEPT ![i] = Append(@, Head(inbox[i]))]
    /\ LET msg == Head(inbox[i])
           cm == InboundRecord(i, msg.Payload)
           item == [msg |-> cm, via |-> "sub", bid |-> msg.bid,
                    origin |-> IF jsonUnmarshalErr(msg.Payload) THEN <<>>
                               ELSE jsonUnmarshal(msg.Payload).C,
                    ttl |-> 0]
       IN  IF cm = Nil
           THEN UNCHANGED <<CacheChannel, emitted, cacheSendq, loopPc>>
           ELSE /\ SendCache(i, "loop", item)
                /\ loopPc' = [loopPc EXCEPT ![i] =
                                 IF SendBlocks(i) THEN "send" ELSE "select"]
    /\ UNCHANGED <<phase, newErr, cur, sendBuffer, sendq, store, loaderPc,
                   iterKeys, calls, taken, pubLog, setLog, scanLog,
                   nForeignPub, nForeignSet, probe, lastCall, scanned, got,
                   stopRequested, consumed>>

\* a receive that lets the parked callers stay parked
LoopTakeSend_LeaveParked(i) ==
    /\ loopPc[i] = "select"
    /\ sendBuffer[i] # <<>>
    /\ LET s == Head(sendBuffer[i])
       IN  /\ sendBuffer' = [sendBuffer EXCEPT ![i] = Tail(@)]
           /\ UNCHANGED sendq
           /\ taken' = Append(taken, s)
           /\ IF PackErr(s.Message)
              THEN UNCHANGED <<cur, loopPc>>
              ELSE /\ cur' = [cur EXCEPT ![i] = [s |-> s, binRes |-> Pack(s.Message)]]
                   /\ loopPc' = [loopPc EXCEPT ![i] = "publish"]
    /\ UNCHANGED <<phase, newErr, CacheChannel, cacheSendq, inbox, store,
                   loaderPc, iterKeys, calls, pubLog, setLog, emitted, scanLog,
                   nForeignPub, nForeignSet, probe, lastCall, scanned, got, stopRequested,
                   received, consumed>>

\* a receive that takes the item of a parked caller before the buffered ones
LoopTakeSend_ParkedFirst(i) ==
    /\ loopPc[i] = "select"
    /\ sendBuffer[i] # <<>>
    /\ LET s == IF sendq[i] # <<>> THEN Head(sendq[i]) ELSE Head(sendBuffer[i])
       IN  /\ IF sendq[i] # <<>>
              THEN /\ sendq' = [sendq EXCEPT ![i] = Tail(@)]
                   /\ UNCHANGED sendBuffer
              ELSE /\ sendBuffer' = [sendBuffer EXCEPT ![i] = Tail(@)]
                   /\ UNCHANGED sendq
           /\ taken' = Append(taken, s)
           /\ IF PackErr(s.Message)
              THEN UNCHANGED <<cur, loopPc>>
              ELSE /\ cur' = [cur EXCEPT ![i] = [s |-> s, binRes |-> Pack(s.Message)]]
                   /\ loopPc' = [loopPc EXCEPT ![i] = "publish"]
    /\ UNCHANGED <<phase, newErr, CacheChannel, cacheSendq, inbox, store,
                   loaderPc, iterKeys, calls, pubLog, setLog, emitted, scanLog,
                   nForeignPub, nForeignSet, probe, lastCall, scanned, got,
                   stopRequested, received, consumed>>

\* case s := <-c.sendBuffer, up to origRes.Pack(): the head of the buffer is
\* received, the first parked PublishCache caller's item moves into the
\* buffer, and a request that does not pack ends the branch
LoopTakeSend(i) ==
    /\ loopPc[i] = "select"
    /\ sendBuffer[i] # <<>>
    /\ LET s == Head(sendBuffer[i])
       IN  /\ IF sendq[i] # <<>>
              THEN /\ sendBuffer' = [sendBuffer EXCEPT ![i] = Append(Tail(@), Head(sendq[i]))]
                   /\ sendq' = [sendq EXCEPT ![i] = Tail(@)]
              ELSE /\ sendBuffer' = [sendBuffer EXCEPT ![i] = Tail(@)]
                   /\ UNCHANGED sendq
           /\ taken' = Append(taken, s)
           /\ IF PackErr(s.Message)
              THEN UNCHANGED <<cur, loopPc>>
              ELSE /\ cur' = [cur EXCEPT ![i] = [s |-> s, binRes |-> Pack(s.Message)]]
                   /\ loopPc' = [loopPc EXCEPT ![i] = "publish"]
    /\ UNCHANGED <<phase, newErr, CacheChannel, cacheSendq, inbox, store,
                   loaderPc, iterKeys, calls, pubLog, setLog, emitted, scanLog,
                   nForeignPub, nForeignSet, probe, lastCall, scanned, got, stopRequested,
                   received, consumed>>

\* an envelope whose C is left unset
Envelope_NoOrigin(i) == [K |-> cur[i].s.Key, M |-> cur[i].binRes, C |-> <<>>]

\* the envelope of the request the outbound branch holds
Envelope(i) == [K |-> cur[i].s.Key, M |-> cur[i].binRes, C |-> idOf(i)]

\* an outbound branch that goes on to the Set without a Publish
LoopPublish_Skipped(i) ==
    /\ loopPc[i] = "publish"
    /\ loopPc' = [loopPc EXCEPT ![i] = "set"]
    /\ UNCHANGED <<inbox, pubLog>>
    /\ UNCHANGED <<phase, newErr, cur, sendBuffer, sendq, CacheChannel,
                   cacheSendq, store, loaderPc, iterKeys, calls, taken, setLog,
                   emitted, scanLog, nForeignPub, nForeignSet, probe, lastCall,
                   scanned, got, stopRequested, received, consumed>>

\* an outbound branch that ends when Publish fails, without the Set
LoopPublish_FailFatal(i) ==
    /\ loopPc[i] = "publish"
    /\ \E ok \in BOOLEAN :
         LET binMsg == jsonMarshal(Envelope(i))
             rcpt == IF ok THEN {j \in Instances : Subscribed(j)} ELSE {}
         IN  /\ loopPc' = [loopPc EXCEPT ![i] = IF ok THEN "set" ELSE "select"]
             /\ inbox' = [j \in Instances |->
                            IF j \in rcpt
                            THEN Append(inbox[j], [Payload |-> binMsg, bid |-> cur[i].s.rid])
                            ELSE inbox[j]]
             /\ pubLog' = pubLog \cup
                   {[rid |-> cur[i].s.rid, from |-> i, channel |-> CacheChannelName,
                     key |-> cur[i].s.Key,
                     payload |-> binMsg, ok |-> ok, rcpt |-> rcpt]}
    /\ UNCHANGED <<phase, newErr, cur, sendBuffer, sendq, CacheChannel,
                   cacheSendq, store, loaderPc, iterKeys, calls, taken, setLog,
                   emitted, scanLog, nForeignPub, nForeignSet, probe, lastCall,
                   scanned, got, stopRequested, received, consumed>>

\* json.Marshal and c.client.Publish: the broker hands a published payload
\* to every subscription; the call's error is not looked at
LoopPublish(i) ==
    /\ loopPc[i] = "publish"
    /\ loopPc' = [loopPc EXCEPT ![i] = "set"]
    /\ IF jsonMarshalErr(Envelope(i))
       THEN UNCHANGED <<inbox, pubLog>>
       ELSE \E ok \in BOOLEAN :
              LET binMsg == jsonMarshal(Envelope(i))
                  rcpt == IF ok THEN {j \in Instances : Subscribed(j)} ELSE {}
              IN  /\ inbox' = [j \in Instances |->
                                 IF j \in rcpt
                                 THEN Append(inbox[j], [Payload |-> binMsg, bid |-> cur[i].s.rid])
                                 ELSE inbox[j]]
                  /\ pubLog' = pubLog \cup
                        {[rid |-> cur[i].s.rid, from |-> i, channel |-> CacheChannelName,
                          key |-> cur[i].s.Key,
                          payload |-> binMsg, ok |-> ok, rcpt |-> rcpt]}
    /\ UNCHANGED <<phase, newErr, cur, sendBuffer, sendq, CacheChannel,
                   cacheSendq, store, loaderPc, iterKeys, calls, taken, setLog,
                   emitted, scanLog, nForeignPub, nForeignSet, probe, lastCall, scanned, got, stopRequested,
                   received, consumed>>

\* a Set that leaves an entry in place that has longer to live
LoopSet_KeepLonger(i) ==
    /\ loopPc[i] = "set"
    /\ loopPc' = [loopPc EXCEPT ![i] = "select"]
    /\ cur' = [cur EXCEPT ![i] = Nil]
    /\ \E ok \in BOOLEAN :
         LET key == prefixKey(cur[i].s.Key)
             ttl == getTTL(cur[i].s.Message)
         IN  /\ setLog' = setLog \cup
                   {[rid |-> cur[i].s.rid, from |-> i, key |-> key,
                     val |-> cur[i].binRes, ttl |-> ttl,
                     message |-> cur[i].s.Message, ok |-> ok]}
             /\ IF ok /\ (store[key] = Nil \/ store[key].ttl <= ttl \div Second)
                THEN store' = [store EXCEPT ![key] =
                                  [val |-> cur[i].binRes, ttl |-> ttl \div Second]]
                ELSE UNCHANGED store
    /\ UNCHANGED <<phase, newErr, sendBuffer, sendq, CacheChannel, cacheSendq,
                   inbox, loaderPc, iterKeys, calls, taken, pubLog, emitted,
                   scanLog, nForeignPub, nForeignSet, probe, lastCall, scanned,
                   got, stopRequested, received, consumed>>

\* c.client.Set(prefixKey(s.Key), binRes, c.getTTL(origRes)): a successful
\* Set replaces the entry; the call's error is not looked at
LoopSet(i) ==
    /\ loopPc[i] = "set"
    /\ loopPc' = [loopPc EXCEPT ![i] = "select"]
    /\ cur' = [cur EXCEPT ![i] = Nil]
    /\ \E ok \in BOOLEAN :
         LET key == prefixKey(cur[i].s.Key)
             ttl == getTTL(cur[i].s.Message)
         IN  /\ setLog' = setLog \cup
                   {[rid |-> cur[i].s.rid, from |-> i, key |-> key,
                     val |-> cur[i].binRes, ttl |-> ttl,
                     message |-> cur[i].s.Message, ok |-> ok]}
             /\ IF ok
                THEN store' = [store EXCEPT ![key] =
                                  [val |-> cur[i].binRes, ttl |-> ttl \div Second]]
                ELSE UNCHANGED store
    /\ UNCHANGED <<phase, newErr, sendBuffer, sendq, CacheChannel, cacheSendq,
                   inbox, loaderPc, iterKeys, calls, taken, pubLog, emitted,
                   scanLog, nForeignPub, nForeignSet, probe, lastCall, scanned, got, stopRequested,
                   received, consumed>>

(***************************************************************************)
(* GetRedisCache and getResponse                                           *)
(***************************************************************************)
\* the reply of the TTL command as go-redis returns it: whole seconds, and
\* a negative duration for a key that is gone
TTLReply(entry) == IF entry = Nil THEN 0 - 2 ELSE entry.ttl * Second

\* GetRedisCache: the goroutine starts and Scan fixes the keys that match
GetRedisCache(i) ==
    /\ HasClient(i)
    /\ loaderPc[i] = "idle"
    /\ loaderPc' = [loaderPc EXCEPT ![i] = "scan"]
    /\ scanned' = [scanned EXCEPT ![i] =
                      {k \in StoreKeys : store[k] # Nil /\ ScanMatches(k)}]
    /\ iterKeys' = [iterKeys EXCEPT ![i] =
                       {k \in StoreKeys : store[k] # Nil /\ ScanMatches(k)}]
    /\ UNCHANGED <<phase, newErr, loopPc, cur, sendBuffer, sendq, CacheChannel,
                   cacheSendq, inbox, store, got, calls, taken, pubLog, setLog,
                   emitted, scanLog, nForeignPub, nForeignSet, probe, lastCall, stopRequested,
                   received, consumed>>

\* a scan loop that returns when getResponse returns an error
ScanError_Return(i) == loaderPc' = [loaderPc EXCEPT ![i] = "done"]

\* the else branch of the scan loop: the error is logged and the loop goes
\* on to iter.Next
ScanError(i) == loaderPc' = [loaderPc EXCEPT ![i] = "scan"]

\* iter.Next returns a key and getResponse calls Get: a key that is gone
\* and a failed call are errors
LoaderGet(i) ==
    /\ loaderPc[i] = "scan"
    /\ iterKeys[i] # {}
    /\ \E key \in iterKeys[i], getFails \in BOOLEAN :
         /\ iterKeys' = [iterKeys EXCEPT ![i] = @ \ {key}]
         /\ IF getFails \/ store[key] = Nil
            THEN /\ ScanError(i)
                 /\ scanLog' = [scanLog EXCEPT ![i] =
                                   Append(@, [key |-> key, get |-> TRUE, ttlErr |-> FALSE,
                                              val |-> <<>>, ttl |-> 0])]
                 /\ UNCHANGED got
            ELSE /\ loaderPc' = [loaderPc EXCEPT ![i] = "ttl"]
                 /\ got' = [got EXCEPT ![i] = [key |-> key, resp |-> store[key].val]]
                 /\ UNCHANGED scanLog
    /\ UNCHANGED <<phase, newErr, loopPc, cur, sendBuffer, sendq, CacheChannel,
                   cacheSendq, inbox, store, calls, taken, pubLog, setLog,
                   emitted, nForeignPub, nForeignSet, probe, lastCall, scanned, stopRequested,
                   received, consumed>>

\* a round of the scan that passes over what this instance stored itself
LoaderTTL_SkipOwn(i) ==
    /\ loaderPc[i] = "ttl"
    /\ got' = [got EXCEPT ![i] = Nil]
    /\ \E ttlFails \in BOOLEAN :
         LET key == got[i].key
             ttl == TTLReply(store[key])
             r == convertMessage([K |-> cleanKey(key), M |-> got[i].resp, C |-> <<>>], ttl)
             item == [msg |-> r.res, via |-> "scan", bid |-> 0, origin |-> <<>>,
                      ttl |-> ttl]
         IN  /\ scanLog' = [scanLog EXCEPT ![i] =
                               Append(@, [key |-> key, get |-> FALSE, ttlErr |-> ttlFails,
                                          val |-> got[i].resp,
                                          ttl |-> IF ttlFails THEN 0 ELSE ttl])]
             /\ IF \/ ttlFails
                   \/ r.err # NoErr
                   \/ \E w \in setLog : w.from = i /\ w.key = key /\ w.val = got[i].resp
                THEN /\ ScanError(i)
                     /\ UNCHANGED <<CacheChannel, emitted, cacheSendq>>
                ELSE /\ SendCache(i, "loader", item)
                     /\ loaderPc' = [loaderPc EXCEPT ![i] =
                                        IF SendBlocks(i) THEN "send" ELSE "scan"]
    /\ UNCHANGED <<phase, newErr, loopPc, cur, sendBuffer, sendq, inbox, store,
                   iterKeys, calls, taken, pubLog, setLog, nForeignPub,
                   nForeignSet, probe, lastCall, scanned, stopRequested,
                   received, consumed>>

\* the rest of getResponse and of the round: TTL, convertMessage with the
\* cleaned key, and the response is sent on CacheChannel when there is no
\* error
LoaderTTL(i) ==
    /\ loaderPc[i] = "ttl"
    /\ got' = [got EXCEPT ![i] = Nil]
    /\ \E ttlFails \in BOOLEAN :
         LET key == got[i].key
             ttl == TTLReply(store[key])
             r == convertMessage([K |-> cleanKey(key), M |-> got[i].resp, C |-> <<>>], ttl)
             item == [msg |-> r.res, via |-> "scan", bid |-> 0, origin |-> <<>>,
                      ttl |-> ttl]
         IN  /\ scanLog' = [scanLog EXCEPT ![i] =
                               Append(@, [key |-> key, get |-> FALSE, ttlErr |-> ttlFails,
                                          val |-> got[i].resp,
                                          ttl |-> IF ttlFails THEN 0 ELSE ttl])]
             /\ IF ttlFails \/ r.err # NoErr
                THEN /\ ScanError(i)
                     /\ UNCHANGED <<CacheChannel, emitted, cacheSendq>>
                ELSE /\ SendCache(i, "loader", item)
                     /\ loaderPc' = [loaderPc EXCEPT ![i] =
                                        IF SendBlocks(i) THEN "send" ELSE "scan"]
    /\ UNCHANGED <<phase, newErr, loopPc, cur, sendBuffer, sendq, inbox, store,
                   iterKeys, calls, taken, pubLog, setLog, nForeignPub,
                   nForeignSet, probe, lastCall, scanned, stopRequested,
                   received, consumed>>

\* iter.Next returns false: the goroutine ends
LoaderDone(i) ==
    /\ loaderPc[i] = "scan"
    /\ iterKeys[i] = {}
    /\ loaderPc' = [loaderPc EXCEPT ![i] = "done"]
    /\ UNCHANGED <<phase, newErr, loopPc, cur, sendBuffer, sendq, CacheChannel,
                   cacheSendq, inbox, store, iterKeys, got, calls, taken, pubLog,
                   setLog, emitted, scanLog, nForeignPub, nForeignSet, probe,
                   lastCall, scanned, stopRequested,
                   received, consumed>>

(***************************************************************************)
(* The broker beyond the clients of the model                              *)
(***************************************************************************)
\* another writer stores an entry
ForeignSet(e) ==
    /\ nForeignSet < MaxForeignSet
    /\ nForeignSet' = nForeignSet + 1
    /\ store' = [store EXCEPT ![e.key] = [val |-> e.val, ttl |-> e.ttl]]
    /\ UNCHANGED <<phase, newErr, loopPc, cur, sendBuffer, sendq, CacheChannel,
                   cacheSendq, inbox, loaderPc, iterKeys, calls, taken, pubLog,
                   setLog, emitted, scanLog, nForeignPub, probe, lastCall, scanned, got, stopRequested,
                   received, consumed>>

\* another writer publishes a payload on the channel
ForeignPublish(p) ==
    /\ nForeignPub < MaxForeignPub
    /\ nForeignPub' = nForeignPub + 1
    /\ inbox' = [j \in Instances |->
                    IF Subscribed(j) THEN Append(inbox[j], [Payload |-> p, bid |-> 0])
                    ELSE inbox[j]]
    /\ UNCHANGED <<phase, newErr, loopPc, cur, sendBuffer, sendq, CacheChannel,
                   cacheSendq, store, loaderPc, iterKeys, calls, taken, pubLog,
                   setLog, emitted, scanLog, nForeignSet, probe, lastCall, scanned, got, stopRequested,
                   received, consumed>>

\* a second of an entry's lifetime passes
Age(k) ==
    /\ store[k] # Nil
    /\ store[k].ttl > 0
    /\ store' = [store EXCEPT ![k].ttl = @ - 1]
    /\ UNCHANGED <<phase, newErr, loopPc, cur, sendBuffer, sendq, CacheChannel,
                   cacheSendq, inbox, loaderPc, iterKeys, calls, taken, pubLog,
                   setLog, emitted, scanLog, nForeignPub, nForeignSet, probe, lastCall, scanned, got, stopRequested,
                   received, consumed>>

\* the store removes an entry whose lifetime is over
Reap(k) ==
    /\ store[k] # Nil
    /\ store[k].ttl = 0
    /\ store' = [store EXCEPT ![k] = Nil]
    /\ UNCHANGED <<phase, newErr, loopPc, cur, sendBuffer, sendq, CacheChannel,
                   cacheSendq, inbox, loaderPc, iterKeys, calls, taken, pubLog,
                   setLog, emitted, scanLog, nForeignPub, nForeignSet, probe, lastCall, scanned, got, stopRequested,
                   received, consumed>>

(***************************************************************************)
(* The host of the engine                                                  *)
(***************************************************************************)
\* the host asks the engine to shut down.  The client keeps
\* context.Background() as its ctx and has no other handle for the request:
\* nothing of the client changes and no case of the select waits for it
RequestStop(i) ==
    /\ HasClient(i)
    /\ ~stopRequested[i]
    /\ stopRequested' = [stopRequested EXCEPT ![i] = TRUE]
    /\ UNCHANGED <<phase, newErr, loopPc, cur, sendBuffer, sendq, CacheChannel,
                   cacheSendq, inbox, store, loaderPc, iterKeys, got, calls,
                   lastCall, scanned, taken, pubLog, setLog, emitted, scanLog,
                   nForeignPub, nForeignSet, received, consumed, probe>>

(***************************************************************************)
(* The pure functions applied to drawn inputs                              *)
(***************************************************************************)
\* every answer of at most MaxRR records
Answers == SeqsUpTo(TTLs, MaxRR)

\* durations around the whole seconds: negative, zero, below one second,
\* between and on the seconds
Durations == (0 - Second)..((MaxTTL + 1) * Second)

\* keys of at most MaxKeyLen characters, and keys that hold the prefix
ShortKeys == SeqsUpTo({"b", ":", "x"}, MaxKeyLen)
KeySet ==
    ShortKeys
    \cup {CacheStorePrefix \o k : k \in ShortKeys}
    \cup {k \o CacheStorePrefix : k \in ShortKeys}
    \cup {CacheStorePrefix \o CacheStorePrefix \o k : k \in ShortKeys}

everyVarButProbe == <<phase, newErr, loopPc, cur, sendBuffer, sendq, CacheChannel,
                      cacheSendq, inbox, store, loaderPc, iterKeys, got, calls,
                      lastCall, scanned, taken, pubLog, setLog, emitted,
                      scanLog, nForeignPub, nForeignSet, stopRequested,
                      received, consumed>>

\* getTTL of an answer
ProbeGetTTL(answer) ==
    /\ probe' = [fn |-> "getTTL", answer |-> answer,
                 out |-> getTTL([Answer |-> answer, packs |-> TRUE])]
    /\ UNCHANGED everyVarButProbe

\* convertMessage of the packed answer, or of bytes that do not unpack
ProbeConvert(answer, corrupt, ttl) ==
    /\ probe' = [fn |-> "convertMessage", answer |-> answer, corrupt |-> corrupt,
                 ttl |-> ttl,
                 out |-> convertMessage(
                            [K |-> <<"a">>,
                             M |-> IF corrupt THEN corruptBytes
                                   ELSE Pack([Answer |-> answer, packs |-> TRUE]),
                             C |-> <<>>], ttl)]
    /\ UNCHANGED everyVarButProbe

\* cleanKey of prefixKey of a key
ProbeKey(key) ==
    /\ probe' = [fn |-> "key", key |-> key, prefixed |-> prefixKey(key),
                 cleaned |-> cleanKey(prefixKey(key))]
    /\ UNCHANGED everyVarButProbe

(***************************************************************************)
(* Specification of the system                                             *)
(***************************************************************************)
\* two instances alone on one broker
Next ==
    \/ \E i \in Instances : New(i)
    \/ \E i \in Instances, key \in PairKeys, message \in PairMsgs :
         PublishCache(i, key, message)
    \/ \E i \in Instances : LoopRecvMsg(i)
    \/ \E i \in Instances : LoopTakeSend(i)
    \/ \E i \in Instances : LoopPublish(i)
    \/ \E i \in Instances : LoopSet(i)
    \/ \E i \in Instances : Consume(i)

Spec == Init /\ [][Next]_vars

\* the goroutines and the consumers are scheduled: a select takes a case
\* that stays ready, a broker call returns, the consumer of CacheChannel
\* keeps receiving
Fairness ==
    \A i \in Instances :
        /\ WF_vars(LoopRecvMsg(i))
        /\ WF_vars(LoopTakeSend(i))
        /\ WF_vars(LoopPublish(i))
        /\ WF_vars(LoopSet(i))
        /\ WF_vars(Consume(i))

FairSpec == Init /\ [][Next]_vars /\ Fairness

\* two instances whose hosts may ask them to shut down
NextStop ==
    \/ Next
    \/ \E i \in Instances : RequestStop(i)

FairStop == Init /\ [][NextStop]_vars /\ Fairness

\* one instance alone on the broker, with every kind of request: it receives
\* its own broadcasts only and sends nothing on CacheChannel
NextSolo ==
    \/ New("A")
    \/ \E key \in SoloKeys, message \in SoloMsgs : PublishCache("A", key, message)
    \/ LoopRecvMsg("A")
    \/ LoopTakeSend("A")
    \/ LoopPublish("A")
    \/ LoopSet("A")

SpecSolo == Init /\ [][NextSolo]_vars

\* one instance and the other publishers of the channel
NextInbound ==
    \/ New("A")
    \/ \E key \in PairKeys, message \in PairMsgs : PublishCache("A", key, message)
    \/ LoopRecvMsg("A")
    \/ LoopTakeSend("A")
    \/ LoopPublish("A")
    \/ LoopSet("A")
    \/ Consume("A")
    \/ \E p \in ForeignPayloads : ForeignPublish(p)

SpecInbound == Init /\ [][NextInbound]_vars

\* one instance whose bulk load reads what other writers left in the store
NextLoad ==
    \/ New("A")
    \/ Consume("A")
    \/ GetRedisCache("A")
    \/ LoaderGet("A")
    \/ LoaderTTL("A")
    \/ LoaderDone("A")
    \/ \E e \in ForeignEntries : ForeignSet(e)
    \/ \E k \in StoreKeys : Age(k)
    \/ \E k \in StoreKeys : Reap(k)

SpecLoad == Init /\ [][NextLoad]_vars

\* one instance that publishes one key with two answers, listens and loads,
\* on a store whose entries age and expire
NextStore ==
    \/ New("A")
    \/ \E message \in {answerMax, answerZero} : PublishCache("A", <<"a">>, message)
    \/ LoopRecvMsg("A")
    \/ LoopTakeSend("A")
    \/ LoopPublish("A")
    \/ LoopSet("A")
    \/ Consume("A")
    \/ GetRedisCache("A")
    \/ LoaderGet("A")
    \/ LoaderTTL("A")
    \/ LoaderDone("A")
    \/ \E k \in StoreKeys : Age(k)
    \/ \E k \in StoreKeys : Reap(k)

SpecStore == Init /\ [][NextStore]_vars

\* one instance that only listens and loads: its coordinating loop and its
\* bulk load both send on CacheChannel what other writers published and
\* stored
NextDecode ==
    \/ New("A")
    \/ LoopRecvMsg("A")
    \/ Consume("A")
    \/ GetRedisCache("A")
    \/ LoaderGet("A")
    \/ LoaderTTL("A")
    \/ LoaderDone("A")
    \/ \E p \in DecodePayloads : ForeignPublish(p)
    \/ \E e \in DecodeEntries : ForeignSet(e)

SpecDecode == Init /\ [][NextDecode]_vars

\* the consumer of CacheChannel keeps receiving
FairDecode == Init /\ [][NextDecode]_vars /\ WF_vars(Consume("A"))

\* instance A publishes and loads its cache while another writer broadcasts
NextProgress ==
    \/ New("A")
    \/ PublishCache("A", <<"a">>, answerMax)
    \/ LoopRecvMsg("A")
    \/ LoopTakeSend("A")
    \/ LoopPublish("A")
    \/ LoopSet("A")
    \/ Consume("A")
    \/ GetRedisCache("A")
    \/ LoaderGet("A")
    \/ LoaderTTL("A")
    \/ LoaderDone("A")
    \/ ForeignPublish(PeerPayload)

SpecProgress == Init /\ [][NextProgress]_vars

\* the broker calls of the loop return and the consumer keeps receiving
FairProgress == Init /\ [][NextProgress]_vars /\ Fairness

\* instance A publishes, receives its own broadcasts and loads a cache that
\* it and another writer have written
NextScope ==
    \/ New("A")
    \/ PublishCache("A", <<"a">>, answerMax)
    \/ LoopRecvMsg("A")
    \/ LoopTakeSend("A")
    \/ LoopPublish("A")
    \/ LoopSet("A")
    \/ Consume("A")
    \/ GetRedisCache("A")
    \/ LoaderGet("A")
    \/ LoaderTTL("A")
    \/ LoaderDone("A")
    \/ \E e \in PeerEntries : ForeignSet(e)

SpecScope == Init /\ [][NextScope]_vars

\* the pure functions alone
NextPure ==
    \/ \E answer \in Answers : ProbeGetTTL(answer)
    \/ \E answer \in Answers, corrupt \in BOOLEAN, ttl \in Durations :
         ProbeConvert(answer, corrupt, ttl)
    \/ \E key \in KeySet : ProbeKey(key)

SpecPure == Init /\ [][NextPure]_vars

(***************************************************************************)
(* Properties                                                              *)
(***************************************************************************)
Range(q) == {q[n] : n \in DOMAIN q}

\* what the coordinating loop of i has sent, or stands blocked sending
LoopItems(i) ==
    {x \in Range(emitted[i]) : x.via = "sub"}
    \cup {w.item : w \in {v \in Range(cacheSendq[i]) : v.who = "loop"}}

\* what the bulk load of i has sent, or stands blocked sending
LoaderItems(i) ==
    {x \in Range(emitted[i]) : x.via = "scan"}
    \cup {w.item : w \in {v \in Range(cacheSendq[i]) : v.who = "loader"}}

\* C1. Loop prevention: whatever was published on the channel, nothing the
\* coordinating loop of an instance sends on CacheChannel stems from an
\* envelope whose origin identifier is the instance's own.
C1_LoopPrevention ==
    \A i \in Instances : \A x \in LoopItems(i) : x.origin # idOf(i)

\* an instance was handed its own broadcast, received it and sent nothing
C1_Witness ==
    \E i \in Instances :
        /\ \E e \in pubLog : e.from = i /\ i \in e.rcpt
        /\ inbox[i] = <<>>
        /\ LoopItems(i) = {}

InvalidArgs(c) == Len(c.key) = 0 \/ c.message = Nil

\* the requests of instance i: taken by its loop, buffered, or held by a
\* parked caller
Requests(i) ==
    {s \in Range(taken) : s.from = i} \cup Range(sendBuffer[i]) \cup Range(sendq[i])

\* C3. A PublishCache call with an empty key or a nil message changes
\* neither the outbound queue nor the store and causes no Publish and no
\* Set; no request with such arguments is ever queued or processed.
C3_InvalidPublishIsNoOp ==
    /\ [][(calls' # calls /\ InvalidArgs(lastCall'))
            => UNCHANGED <<sendBuffer, sendq, taken, cur, store, pubLog, setLog, inbox>>]_vars
    /\ [](\A i \in Instances : \A s \in Requests(i) :
             Len(s.Key) > 0 /\ s.Message # Nil)

\* a call with an empty key or a nil message has returned
C3_Witness ==
    /\ lastCall # Nil
    /\ InvalidArgs(lastCall)
    /\ \A i \in Instances : sendBuffer[i] = <<>> /\ sendq[i] = <<>>
    /\ taken = <<>>

\* C4. Bounded backpressure: sendBuffer never holds more than chanCap
\* items; a caller is parked only while the buffer is full, and a valid call
\* parks exactly when it finds the buffer full; a request once accepted
\* stays, unchanged and once, among the parked, the buffered and the taken.
C4_Backpressure ==
    /\ [](\A i \in Instances :
             /\ Len(sendBuffer[i]) <= chanCap
             /\ sendq[i] # <<>> => Len(sendBuffer[i]) = chanCap
             /\ Cardinality(Requests(i)) =
                  Cardinality({n \in DOMAIN taken : taken[n].from = i})
                  + Len(sendBuffer[i]) + Len(sendq[i]))
    /\ [][\A i \in Instances :
             /\ Requests(i) \subseteq Requests(i)'
             /\ (calls' # calls /\ lastCall'.inst = i /\ ~InvalidArgs(lastCall'))
                  => /\ [Key |-> lastCall'.key, Message |-> lastCall'.message,
                         rid |-> calls', from |-> i] \in Requests(i)'
                     /\ (Len(sendq'[i]) > Len(sendq[i]))
                          <=> (Len(sendBuffer[i]) = chanCap)]_vars

\* a caller is parked on a full sendBuffer while the loop runs
C4_Witness ==
    \E i \in Instances :
        /\ sendq[i] # <<>>
        /\ Len(sendBuffer[i]) = chanCap
        /\ loopPc[i] # "off"

\* the TTL the claim names for the Set of a message
PositiveTTLs(m) == {t \in Range(m.Answer) : t > 0}
ExpectedStoreTTL(m) ==
    IF PositiveTTLs(m) = {} THEN 1 * Second
    ELSE (CHOOSE t \in PositiveTTLs(m) : \A u \in PositiveTTLs(m) : u <= t) * Second

\* C5. Every Set of the outbound branch carries the largest record TTL of
\* the answer, in seconds, when a record TTL is positive, and one second
\* otherwise; no Set carries a TTL of zero or less.  getTTL returns the same
\* for every answer of the model.
C5_StoreTTL ==
    /\ \A e \in setLog : e.ttl = ExpectedStoreTTL(e.message) /\ e.ttl > 0
    /\ (probe # Nil /\ probe.fn = "getTTL")
         => /\ probe.out = ExpectedStoreTTL([Answer |-> probe.answer])
            /\ probe.out > 0

\* one Set fell back to the default and one took a TTL that is not the last
C5_Witness ==
    /\ \E e \in setLog : e.message = answerZero /\ e.ttl = defaultCacheTime
    /\ \E e \in setLog : e.message = answerMax /\ e.ttl = MaxTTL * Second

\* C7. cleanKey(prefixKey(k)) = k for every key, the empty key and keys
\* that begin with or contain the prefix included.
C7_KeyRoundTrip ==
    (probe # Nil /\ probe.fn = "key") => probe.cleaned = probe.key

\* the round trip of a key that itself begins with the prefix
C7_Witness ==
    /\ probe # Nil
    /\ probe.fn = "key"
    /\ IsPrefixOf(CacheStorePrefix, probe.key)
    /\ probe.cleaned = probe.key

\* C10. When Ping or the subscription handshake fails, New returns an error
\* and the loop never runs: it takes no request and sends nothing; the loop
\* runs only where both succeeded.
C10_FailFast ==
    \A i \in Instances :
        /\ phase[i] \in {"pingFailed", "subFailed"}
             => /\ newErr[i] # NoErr
                /\ loopPc[i] = "off"
                /\ \A s \in Range(taken) : s.from # i
                /\ LoopItems(i) = {}
        /\ loopPc[i] # "off" => phase[i] = "running" /\ newErr[i] = NoErr

\* the handshake failed, a request waits in the queue of the client New
\* returned, and the other instance runs
C10_Witness ==
    \E i \in Instances, j \in Instances :
        /\ phase[i] = "subFailed"
        /\ sendBuffer[i] # <<>>
        /\ phase[j] = "running"

\* the outbound branch is through with request s
Finished(s) == \A i \in Instances : cur[i] = Nil \/ cur[i].s.rid # s.rid

\* a Set under the namespaced key with the TTL of the answer was issued for s
SetIssued(s) ==
    \E e \in setLog :
        /\ e.rid = s.rid
        /\ e.key = CacheStorePrefix \o s.Key
        /\ e.ttl = ExpectedStoreTTL(s.Message)

\* an envelope with the key and the origin id of the publisher was published
PubIssued(s) ==
    \E e \in pubLog :
        /\ e.rid = s.rid
        /\ e.channel = CacheChannelName
        /\ ~jsonUnmarshalErr(e.payload)
        /\ jsonUnmarshal(e.payload).K = s.Key
        /\ jsonUnmarshal(e.payload).C = idOf(s.from)

\* no Publish and no Set for s failed
NoBrokerFailure(s) ==
    /\ \A e \in pubLog : e.rid = s.rid => e.ok
    /\ \A e \in setLog : e.rid = s.rid => e.ok

\* records instance j put on CacheChannel for the broadcast of request r
EmitsFor(j, r) == {n \in DOMAIN emitted[j] : emitted[j][n].bid = r}

IsConvertProbe == probe # Nil /\ probe.fn = "convertMessage" /\ probe.out.err = NoErr

C8_OnlyLiveEntries ==
    \A i \in Instances : \A x \in LoaderItems(i) : x.ttl > 0

\* Get, TTL or Unpack failed for a scanned key
ScanFailed(e) == e.get \/ e.ttlErr \/ UnpackErr(e.val)

ScanItemFor(i, key) ==
    \E x \in LoaderItems(i) : key = CacheStorePrefix \o x.msg.Key

\* C9. A scanned key whose Get, TTL read or decode fails yields no record
\* and does not end the scan: every key that reads and decodes yields its
\* record, and the finished scan has been through every key Scan matched.
C9_PerKeyFailure ==
    \A i \in Instances :
        /\ \A n \in DOMAIN scanLog[i] :
             ScanFailed(scanLog[i][n]) <=> ~ScanItemFor(i, scanLog[i][n].key)
        /\ Cardinality(LoaderItems(i))
             = Cardinality({n \in DOMAIN scanLog[i] : ~ScanFailed(scanLog[i][n])})
        /\ loaderPc[i] = "done"
             => {scanLog[i][n].key : n \in DOMAIN scanLog[i]} = scanned[i]

\* a key failed and a key scanned after it yielded its record
C9_Witness ==
    \E i \in Instances : \E m \in DOMAIN scanLog[i], n \in DOMAIN scanLog[i] :
        /\ m < n
        /\ ScanFailed(scanLog[i][m])
        /\ ~ScanFailed(scanLog[i][n])
        /\ ScanItemFor(i, scanLog[i][n].key)
        /\ loaderPc[i] = "done"

\* C11 as stated: once the host has signalled cancellation the coordinating
\* loop ends its in-flight branch and reaches a terminated state.
C11_CooperativeCancellation ==
    \A i \in Instances : stopRequested[i] ~> (loopPc[i] = "off")

\* what the loop does instead: once started it never leaves the select loop
C11_LoopNeverEnds ==
    [][\A i \in Instances : loopPc[i] # "off" => loopPc'[i] # "off"]_vars

\* the requests of instance i that packed and whose outbound branch is over
Through(i) ==
    {s \in Range(taken) :
        /\ s.from = i
        /\ ~PackErr(s.Message)
        /\ ~(loopPc[i] \in {"publish", "set"} /\ cur[i].s.rid = s.rid)}

\* C12. In the outbound branch the Publish and the Set are both issued
\* whatever the other returns: a failed Publish is followed by the Set, a
\* failed Set leaves what was broadcast where it is, and after either the
\* loop is back at its select and never ends.
C12_IndependentNonFatal ==
    /\ [](\A i \in Instances : \A s \in Through(i) :
             /\ \E e \in pubLog : e.rid = s.rid /\ e.from = i
             /\ \E w \in setLog : w.rid = s.rid /\ w.key = CacheStorePrefix \o s.Key)
    /\ [](\A i \in Instances : phase[i] = "running" => loopPc[i] # "off")
    /\ [][\A i \in Instances :
             /\ (loopPc[i] = "publish" /\ loopPc'[i] # "publish")
                  => (loopPc'[i] = "set" /\ store' = store /\ cur'[i] = cur[i])
             /\ (loopPc[i] = "set" /\ loopPc'[i] # "set")
                  => (loopPc'[i] = "select" /\ inbox' = inbox /\ pubLog' = pubLog
                      /\ received' = received /\ emitted' = emitted)]_vars

\* the Publish of one request failed and its Set succeeded; the loop went
\* on to the next request, whose Publish succeeded and whose Set failed
C12_Witness ==
    \E e1 \in pubLog, w1 \in setLog, e2 \in pubLog, w2 \in setLog :
        /\ e1.rid = w1.rid /\ ~e1.ok /\ w1.ok
        /\ e2.rid = w2.rid /\ e2.ok /\ ~w2.ok
        /\ e1.from = e2.from
        /\ e1.rid < e2.rid
        /\ e2.from \in e2.rcpt
        /\ store[w1.key] # Nil
        /\ loopPc[e1.from] = "select"

\* the envelope of payload p parses and its bytes unpack
Decodes(p) == ~jsonUnmarshalErr(p) /\ ~UnpackErr(jsonUnmarshal(p).M)

\* how many records the coordinating loop of i has sent or stands blocked
\* sending
NumLoopItems(i) ==
    Cardinality({n \in DOMAIN emitted[i] : emitted[i][n].via = "sub"})
    + Cardinality({n \in DOMAIN cacheSendq[i] : cacheSendq[i][n].who = "loop"})

TakenBy(i) == SelectSeq(taken, LAMBDA s : s.from = i)

PubsOf(i) == {e \in pubLog : e.from = i}
SetsOf(i) == {w \in setLog : w.from = i}

\* C14. The loop of an instance handles one event at a time.  While an
\* outbound publish is in flight (between taking the request and its Set)
\* the loop receives no inbound message and takes no other request, and
\* its Publish and Set are those of the request it holds, the last it
\* took; while it stands blocked forwarding an inbound record it takes no
\* request and issues no Publish or Set.  Once it is back at the select
\* every request it took and packed has had its Publish and its Set.
C14_SingleWorker ==
    /\ [](\A i \in Instances :
             /\ loopPc[i] \in {"publish", "set"}
                  => /\ cur[i] # Nil
                     /\ TakenBy(i) # <<>>
                     /\ cur[i].s = TakenBy(i)[Len(TakenBy(i))]
                     /\ (\E e \in PubsOf(i) : e.rid = cur[i].s.rid) <=> loopPc[i] = "set"
                     /\ ~\E w \in SetsOf(i) : w.rid = cur[i].s.rid
             /\ loopPc[i] \in {"select", "send"}
                  => \A n \in DOMAIN TakenBy(i) :
                        ~PackErr(TakenBy(i)[n].Message)
                          => /\ \E e \in PubsOf(i) : e.rid = TakenBy(i)[n].rid
                             /\ \E w \in SetsOf(i) : w.rid = TakenBy(i)[n].rid)
    /\ [][\A i \in Instances :
             /\ loopPc[i] \in {"publish", "set"}
                  => /\ received'[i] = received[i]
                     /\ TakenBy(i)' = TakenBy(i)
                     /\ NumLoopItems(i)' = NumLoopItems(i)
                     /\ \A e \in PubsOf(i)' \ PubsOf(i) : e.rid = cur[i].s.rid
                     /\ \A w \in SetsOf(i)' \ SetsOf(i) : w.rid = cur[i].s.rid
             /\ loopPc[i] = "send"
                  => /\ received'[i] = received[i]
                     /\ TakenBy(i)' = TakenBy(i)
                     /\ PubsOf(i)' = PubsOf(i)
                     /\ SetsOf(i)' = SetsOf(i)]_vars

\* a publish is in flight while an inbound message and another request wait
C14_Witness ==
    \E i \in Instances :
        /\ loopPc[i] \in {"publish", "set"}
        /\ inbox[i] # <<>>
        /\ sendBuffer[i] # <<>>
        /\ received[i] # <<>>

\* the successful Sets under store key k
WritesTo(k) == {w \in setLog : w.ok /\ w.key = k}

\* the last of them (one instance takes its requests in the order of
\* their numbers)
LastWriteTo(k) == CHOOSE w \in WritesTo(k) : \A v \in WritesTo(k) : v.rid <= w.rid

\* C15. An entry of the store holds the payload of the last successful Set
\* under its key and has at most that Set's TTL left, and exactly that
\* payload and TTL right after the Set, whatever was there before.  No step
\* of the loop or of the bulk load removes an entry or changes one other
\* than by a Set: an entry goes away only when its lifetime is over.
C15_OverwriteNoDelete ==
    /\ [](\A k \in StoreKeys :
             store[k] # Nil
               => /\ WritesTo(k) # {}
                  /\ store[k].val = LastWriteTo(k).val
                  /\ store[k].ttl * Second <= LastWriteTo(k).ttl)
    /\ [][\A w \in setLog' \ setLog :
             IF w.ok
             THEN store' = [store EXCEPT ![w.key] =
                               [val |-> w.val, ttl |-> w.ttl \div Second]]
             ELSE store' = store]_vars
    /\ [][(received' # received \/ taken' # taken \/ pubLog' # pubLog
            \/ scanLog' # scanLog \/ loaderPc' # loaderPc \/ got' # got
            \/ emitted' # emitted \/ consumed' # consumed)
             => store' = store]_vars
    /\ [][\A k \in StoreKeys :
             (store[k] # Nil /\ store'[k] = Nil)
               => (store[k].ttl = 0 /\ setLog' = setLog /\ loopPc' = loopPc)]_vars

\* an answer with a short TTL was stored over one with a long TTL: the
\* entry holds the second payload and its TTL
C15_Witness ==
    \E w1 \in setLog, w2 \in setLog :
        /\ w1.ok /\ w2.ok
        /\ w1.key = w2.key
        /\ w1.rid < w2.rid
        /\ w1.val # w2.val
        /\ w2.ttl < w1.ttl
        /\ store[w2.key] # Nil
        /\ store[w2.key].val = w2.val
        /\ store[w2.key].ttl * Second = w2.ttl

\* how many records the bulk load of i has sent or stands blocked sending
NumLoaderItems(i) ==
    Cardinality({n \in DOMAIN emitted[i] : emitted[i][n].via = "scan"})
    + Cardinality({n \in DOMAIN cacheSendq[i] : cacheSendq[i][n].who = "loader"})

\* the goroutines parked on CacheChannel of i
Parked(i, who) == {n \in DOMAIN cacheSendq[i] : cacheSendq[i][n].who = who}

\* C16. The coordinating loop and the bulk load send on one CacheChannel.
\* The channel never holds more than chanCap records; a producer is parked
\* only while it is full, and a send that finds it full parks; each
\* producer has one record in the channel or parked per message or key it
\* decoded; what the consumer has taken, followed by what the channel holds,
\* is what entered the channel, record for record and in that order; and
\* with a consumer that keeps receiving, every record sent is taken.
C16_SharedChannel ==
    /\ [](\A i \in Instances :
             /\ Len(CacheChannel[i]) <= chanCap
             /\ cacheSendq[i] # <<>> => Len(CacheChannel[i]) = chanCap
             /\ emitted[i] = consumed[i] \o CacheChannel[i]
             /\ Cardinality(Parked(i, "loop")) = IF loopPc[i] = "send" THEN 1 ELSE 0
             /\ Cardinality(Parked(i, "loader")) = IF loaderPc[i] = "send" THEN 1 ELSE 0
             /\ NumLoopItems(i) =
                  Cardinality({n \in DOMAIN received[i] :
                                 /\ Decodes(received[i][n].Payload)
                                 /\ jsonUnmarshal(received[i][n].Payload).C # idOf(i)})
             /\ NumLoaderItems(i) =
                  Cardinality({n \in DOMAIN scanLog[i] : ~ScanFailed(scanLog[i][n])}))
    /\ [][\A i \in Instances :
             /\ (NumLoopItems(i)' > NumLoopItems(i) /\ Len(CacheChannel[i]) = chanCap)
                  => (loopPc'[i] = "send" /\ CacheChannel'[i] = CacheChannel[i])
             /\ (NumLoaderItems(i)' > NumLoaderItems(i) /\ Len(CacheChannel[i]) = chanCap)
                  => (loaderPc'[i] = "send" /\ CacheChannel'[i] = CacheChannel[i])
             /\ \A n \in DOMAIN emitted[i] :
                  n \in DOMAIN emitted'[i] /\ emitted'[i][n] = emitted[i][n]
             /\ \A n \in DOMAIN consumed[i] :
                  n \in DOMAIN consumed'[i] /\ consumed'[i][n] = consumed[i][n]]_vars
    /\ []<>(\A i \in Instances :
               /\ cacheSendq[i] = <<>>
               /\ consumed[i] = emitted[i]
               /\ Len(consumed[i]) = NumLoopItems(i) + NumLoaderItems(i))

\* the consumer has taken a record of the bulk load, the channel is full
\* again and the loop stands parked on it
C16_Witness ==
    \E i \in Instances :
        /\ \E n \in DOMAIN consumed[i] : consumed[i][n].via = "scan"
        /\ Len(CacheChannel[i]) = chanCap
        /\ Parked(i, "loop") # {}
        /\ loaderPc[i] # "idle"

\* the envelope the outbound branch builds for the request of Set w
EnvelopeOf(w) == [K |-> cleanKey(w.key), M |-> w.val, C |-> idOf(w.from)]

QueueOf(i) == TakenBy(i) \o sendBuffer[i] \o sendq[i]

Buffered(i, n) == \E k \in DOMAIN sendBuffer[i] : sendBuffer[i][k].rid = n

\* the PublishCache call with request number n stands blocked sending
Blocked(i, n) == \E k \in DOMAIN sendq[i] : sendq[i][k].rid = n

\* the loop of instance i can take a step
LoopCanStep(i) ==
    ENABLED (LoopRecvMsg(i) \/ LoopTakeSend(i) \/ LoopPublish(i) \/ LoopSet(i))

WroteItself(i, key, val) ==
    \E w \in setLog : w.from = i /\ w.ok /\ w.key = key /\ w.val = val

\* the records the bulk load of i has sent or stands blocked sending, in
\* the order it sent them
LoaderSeq(i) ==
    SelectSeq(emitted[i], LAMBDA x : x.via = "scan")
    \o SelectSeq([n \in DOMAIN cacheSendq[i] |-> cacheSendq[i][n].item],
                 LAMBDA x : x.via = "scan")

\* C20. The origin filter works on the broadcast path alone. What Set
\* stores is the packed answer without an origin id, and a record of the
\* bulk load carries none. Every round of the scan that read the value and
\* the TTL of a key and found bytes that unpack sends one record for that
\* key with the records of that value and the TTL read, whoever stored it,
\* this instance included; the loop meanwhile sends nothing that stems from
\* a broadcast of its own.
C20_FilterScope ==
    /\ [](\A i \in Instances :
             /\ \A w \in SetsOf(i) : w.val = Pack(w.message)
             /\ \A x \in LoaderItems(i) : x.origin = <<>>
             /\ \A x \in LoopItems(i) : x.origin # idOf(i))
    /\ [][\A i \in Instances :
             Len(scanLog[i]') > Len(scanLog[i])
               => LET e == scanLog[i]'[Len(scanLog[i]')]
                  IN  IF ScanFailed(e)
                      THEN LoaderSeq(i)' = LoaderSeq(i)
                      ELSE /\ Len(LoaderSeq(i)') = Len(LoaderSeq(i)) + 1
                           /\ SubSeq(LoaderSeq(i)', 1, Len(LoaderSeq(i))) = LoaderSeq(i)
                           /\ LET x == LoaderSeq(i)'[Len(LoaderSeq(i)')]
                              IN  /\ CacheStorePrefix \o x.msg.Key = e.key
                                  /\ Len(x.msg.Res) = Len(Unpack(e.val).Answer)
                                  /\ x.ttl = e.ttl]_vars

\* the bulk load sent a record for an entry this instance stored itself,
\* whose broadcast the loop received and dropped, and a record for an entry
\* of another writer
C20_Witness ==
    \E i \in Instances :
        /\ \E n \in DOMAIN scanLog[i] :
              /\ ~ScanFailed(scanLog[i][n])
              /\ WroteItself(i, scanLog[i][n].key, scanLog[i][n].val)
              /\ ScanItemFor(i, scanLog[i][n].key)
        /\ \E n \in DOMAIN scanLog[i] :
              /\ ~ScanFailed(scanLog[i][n])
              /\ ~WroteItself(i, scanLog[i][n].key, scanLog[i][n].val)
              /\ ScanItemFor(i, scanLog[i][n].key)
        /\ \E n \in DOMAIN received[i] : received[i][n].bid # 0
        /\ inbox[i] = <<>>
        /\ LoopItems(i) = {}

====
